---- MODULE Spec2Model ----
(***************************************************************************)
(* A model of src/server.py: the seven tool handlers of the GitHub         *)
(* Obsidian MCP server, the GitHubClient.make_request wrapper they share,  *)
(* and the remote contents API they talk to.                               *)
(*                                                                         *)
(* Strings that the code sorts or tests (entry names, rendered lines) are  *)
(* sequences of Unicode code points, compared as Python compares str.      *)
(* Every other string is an opaque TLA+ string.  A JSON payload is a       *)
(* record tagged with its shape; a Python dict is a function from keys.    *)
(***************************************************************************)
EXTENDS Integers, Sequences, FiniteSets, TLC

\* ------------------------------------------------------------------ bounds
NumProcs == 2
NumContents == 2
MaxEntries == 3
MaxItems == 11

\* ------------------------------------------------------- program constants
TopN == 10
SearchPerPage == 20
MaxPerPage == 100
FolderEmoji == 128193
MemoEmoji == 128221
PageEmoji == 128196
SpaceChar == 32
SlashChar == 47

\* --------------------------------------------------------------- helpers
Min(a, b) == IF a < b THEN a ELSE b

SeqsUpTo(S, n) == UNION {[1..k -> S] : k \in 0..n}

EmptyDict == <<>>

HasKey(d, k) == k \in DOMAIN d

\* Python's None (and every falsy sha) against a non-empty sha string.
None == <<>>

Truthy(s) == s # None

\* str < str in Python: lexicographic on code points, a proper prefix first.
StrLess(a, b) ==
    \E k \in 0..Min(Len(a), Len(b)) :
        /\ \A i \in 1..k : a[i] = b[i]
        /\ \/ k = Len(a) /\ k < Len(b)
           \/ k < Len(a) /\ k < Len(b) /\ a[k + 1] < b[k + 1]

\* sorted(): stable, ascending under StrLess.
RECURSIVE InsertSorted(_, _)
InsertSorted(x, s) ==
    IF s = <<>> THEN <<x>>
    ELSE IF StrLess(x, s[Len(s)]) THEN Append(InsertSorted(x, SubSeq(s, 1, Len(s) - 1)), s[Len(s)])
    ELSE Append(s, x)

RECURSIVE Sorted(_)
Sorted(s) ==
    IF s = <<>> THEN <<>>
    ELSE InsertSorted(s[Len(s)], Sorted(SubSeq(s, 1, Len(s) - 1)))

\* str.endswith('.md')
EndsWithMd(name) ==
    /\ Len(name) >= 3
    /\ SubSeq(name, Len(name) - 2, Len(name)) = <<46, 109, 100>>

\* ------------------------------------------------ outcomes of a code block
Ret(t) == [kind |-> "return", text |-> t]

Raise(e) == [kind |-> "raise", exc |-> e]

NoResult == [kind |-> "none"]

\* Every exception class the handlers can meet; all derive from Exception.
ExceptionClasses ==
    {"Exception", "HTTPError", "JSONDecodeError", "KeyError", "TypeError", "AttributeError"}

\* ------------------------------------------------------------ JSON payloads
NotJson == [shape |-> "notjson"]

Scalar(t) == [shape |-> "scalar", truthy |-> t]

List(items) == [shape |-> "list", items |-> items]

Dict(d) == [shape |-> "dict", d |-> d]

ErrBody == Dict([message |-> "error"])

\* ------------------------------------------------------ transport outcomes
NetErr == [neterr |-> TRUE, status |-> 0, ratelimit |-> FALSE, data |-> NotJson]

Resp(status, rl, data) == [neterr |-> FALSE, status |-> status, ratelimit |-> rl, data |-> data]

\* Outcomes any request can meet, whatever it asks for.
GenericFaults ==
    {NetErr, Resp(403, TRUE, ErrBody), Resp(403, FALSE, ErrBody), Resp(500, FALSE, NotJson)}

\* ------------------------------------------------------------ make_request
\* GitHubClient.make_request: what the caller gets for transport outcome t.
MakeRequest(t) ==
    IF t.neterr THEN Raise("Exception")
    ELSE IF t.status = 403 /\ t.ratelimit THEN Raise("Exception")
    ELSE [kind |-> "response"]

\* requests.Response.raise_for_status
RaisesForStatus(status) == status >= 400 /\ status < 600

\* A handler that caught only the errors of the requests library.
HandlerCatchesRequestsOnly(e) == e \in {"HTTPError", "JSONDecodeError"}

\* `except Exception` at the end of every handler.
HandlerCatches(e) == e \in ExceptionClasses

\* try: <block> except Exception as e: return f"<errmsg>: {str(e)}"
Guarded(out, errmsg) ==
    IF out.kind = "raise" /\ HandlerCatches(out.exc)
    THEN Ret([msg |-> errmsg, cause |-> out.exc])
    ELSE out

\* ------------------------------------------------------------------ inputs
Owner == "o"
Repo == "r"
FilePath == "a.md"
Paths == {"", "notes", FilePath}
Refs == {"", "dev"}
Branches == {"main", "dev"}
DefaultBranch == "main"
Contents == 1..NumContents
NoFile == 0

\* Entry names: "a", "a.md", "b", "c.md".
Names == {<<97>>, <<97, 46, 109, 100>>, <<98>>, <<99, 46, 109, 100>>}

\* One entry of a directory payload; ok = FALSE is an entry without the keys
\* 'type' and 'name'.
BadItem == [ok |-> FALSE, type |-> "?", name |-> <<>>]

DirItems == [ok : {TRUE}, type : {"dir", "file"}, name : Names] \cup {BadItem}

\* -------------------------------------------------------- request builders
ContentsGet(url, ref) ==
    [method |-> "GET", url |-> url,
     params |-> IF ref # "" THEN [ref |-> ref] ELSE EmptyDict]

GetFileContentsRequest(a) == ContentsGet(<<"repos", a.owner, a.repo, "contents", a.path>>, a.ref)

ListDirectoryRequest(a) ==
    ContentsGet(IF a.path # "" THEN <<"repos", a.owner, a.repo, "contents", a.path>>
                ELSE <<"repos", a.owner, a.repo, "contents">>, a.ref)

\* ------------------------------------------------------- get_file_contents
DirLine(name) == <<FolderEmoji, SpaceChar>> \o name \o <<SlashChar>>

PageLine(name) == <<PageEmoji, SpaceChar>> \o name

MemoLine(name) == <<MemoEmoji, SpaceChar>> \o name

IsDir(item) == item.type = "dir"

IsNotDir(item) == item.type # "dir"

AllItemsOk(items) == \A i \in 1..Len(items) : items[i].ok

GetFileContentsListing(a, items) ==
    LET ds == SelectSeq(items, IsDir)
        fs == SelectSeq(items, IsNotDir)
    IN  [msg |-> "contents_of", path |-> a.path,
         dirs |-> [i \in 1..Len(ds) |-> DirLine(ds[i].name)],
         files |-> [i \in 1..Len(fs) |-> PageLine(fs[i].name)]]

\* get_file_contents without its test for status 404.
GetFileContentsBodyNo404(a, t) ==
    IF MakeRequest(t).kind = "raise" THEN MakeRequest(t)
    ELSE IF RaisesForStatus(t.status) THEN Raise("HTTPError")
    ELSE IF t.data.shape = "notjson" THEN Raise("JSONDecodeError")
    ELSE IF t.data.shape = "list" THEN
        IF AllItemsOk(t.data.items) THEN Ret(GetFileContentsListing(a, t.data.items))
        ELSE Raise("KeyError")
    ELSE IF t.data.shape = "scalar" THEN Raise("AttributeError")
    ELSE IF HasKey(t.data.d, "type") /\ t.data.d.type = "file" THEN
        IF HasKey(t.data.d, "content") /\ t.data.d.content # "undecodable"
        THEN Ret([msg |-> "file", path |-> a.path, content |-> t.data.d.content])
        ELSE Ret([msg |-> "error_decoding"])
    ELSE Ret([msg |-> "unknown_content_type", path |-> a.path])

GetFileContentsBody(a, t) ==
    IF MakeRequest(t).kind = "raise" THEN MakeRequest(t)
    ELSE IF t.status = 404 THEN Ret([msg |-> "file_not_found", path |-> a.path])
    ELSE IF RaisesForStatus(t.status) THEN Raise("HTTPError")
    ELSE IF t.data.shape = "notjson" THEN Raise("JSONDecodeError")
    ELSE IF t.data.shape = "list" THEN
        IF AllItemsOk(t.data.items) THEN Ret(GetFileContentsListing(a, t.data.items))
        ELSE Raise("KeyError")
    ELSE IF t.data.shape = "scalar" THEN Raise("AttributeError")
    ELSE IF HasKey(t.data.d, "type") /\ t.data.d.type = "file" THEN
        IF HasKey(t.data.d, "content") /\ t.data.d.content # "undecodable"
        THEN Ret([msg |-> "file", path |-> a.path, content |-> t.data.d.content])
        ELSE Ret([msg |-> "error_decoding"])
    ELSE Ret([msg |-> "unknown_content_type", path |-> a.path])

GetFileContents(a, t) == Guarded(GetFileContentsBody(a, t), "error_reading_file")

\* ---------------------------------------------------------- list_directory
ListDirectoryLine(item) ==
    IF item.type = "dir" THEN DirLine(item.name)
    ELSE IF EndsWithMd(item.name) THEN MemoLine(item.name)
    ELSE PageLine(item.name)

SortLines(lines) == Sorted(lines)

ListDirectoryListing(a, items) ==
    LET ds == SelectSeq(items, IsDir)
        fs == SelectSeq(items, IsNotDir)
    IN  [msg |-> "listing", location |-> IF a.path # "" THEN a.path ELSE "root",
         dirs |-> SortLines([i \in 1..Len(ds) |-> ListDirectoryLine(ds[i])]),
         files |-> SortLines([i \in 1..Len(fs) |-> ListDirectoryLine(fs[i])])]

ListDirectoryBody(a, t) ==
    IF MakeRequest(t).kind = "raise" THEN MakeRequest(t)
    ELSE IF t.status = 404 THEN Ret([msg |-> "directory_not_found", path |-> a.path])
    ELSE IF RaisesForStatus(t.status) THEN Raise("HTTPError")
    ELSE IF t.data.shape = "notjson" THEN Raise("JSONDecodeError")
    ELSE IF t.data.shape # "list" THEN Ret([msg |-> "not_a_directory", path |-> a.path])
    ELSE IF ~AllItemsOk(t.data.items) THEN Raise("KeyError")
    ELSE Ret(ListDirectoryListing(a, t.data.items))

ListDirectory(a, t) == Guarded(ListDirectoryBody(a, t), "error_listing_directory")

\* ------------------------------------------------------------- search_code
SearchCodeRequest(a) ==
    [method |-> "GET", url |-> <<"search", "code">>,
     params |-> [q |-> <<a.query, "repo:", a.owner, a.repo>>, per_page |-> SearchPerPage]]

\* One item of a search payload: its path, and its 'text_matches' key: absent,
\* an empty list, a first match whose fragment is missing or blank, or a first
\* match with a fragment.
MatchKinds == {"absent", "empty", "blank", "frag"}

\* The lines one item adds to the result.
SearchItemLines(item) ==
    IF item.tm # "absent" THEN
        IF item.tm = "frag"
        THEN <<[kind |-> "path", path |-> item.path], [kind |-> "fragment", path |-> item.path]>>
        ELSE <<>>
    ELSE <<[kind |-> "path", path |-> item.path]>>

RECURSIVE SearchLines(_)
SearchLines(items) ==
    IF items = <<>> THEN <<>>
    ELSE SearchLines(SubSeq(items, 1, Len(items) - 1)) \o SearchItemLines(items[Len(items)])

\* data['items'][:10]
FirstItems(items) == SubSeq(items, 1, Min(Len(items), TopN))

SearchCodeBody(a, t) ==
    IF MakeRequest(t).kind = "raise" THEN MakeRequest(t)
    ELSE IF RaisesForStatus(t.status) THEN Raise("HTTPError")
    ELSE IF t.data.shape = "notjson" THEN Raise("JSONDecodeError")
    ELSE IF t.data.shape # "dict" THEN Raise("TypeError")
    ELSE IF ~HasKey(t.data.d, "total_count") THEN Raise("KeyError")
    ELSE IF t.data.d.total_count = 0 THEN Ret([msg |-> "no_results", query |-> a.query])
    ELSE IF ~HasKey(t.data.d, "items") THEN Raise("KeyError")
    ELSE Ret([msg |-> "found", total |-> t.data.d.total_count, query |-> a.query,
              lines |-> SearchLines(FirstItems(t.data.d.items))])

SearchCode(a, t) == Guarded(SearchCodeBody(a, t), "error_searching")

\* ------------------------------------------------------------ list_commits
\* per_page sent as given.
ClampPerPageNone(n) == n

\* min(per_page, 100)
ClampPerPage(n) == IF n < MaxPerPage THEN n ELSE MaxPerPage

ListCommitsParams(a) ==
    [page |-> a.page, per_page |-> ClampPerPage(a.per_page)]
        @@ (IF a.sha # "" THEN [sha |-> a.sha] ELSE EmptyDict)
        @@ (IF a.path # "" THEN [path |-> a.path] ELSE EmptyDict)

ListCommitsRequest(a) ==
    [method |-> "GET", url |-> <<"repos", a.owner, a.repo, "commits">>,
     params |-> ListCommitsParams(a)]

\* `not commits`
Falsy(data) ==
    \/ data.shape = "scalar" /\ ~data.truthy
    \/ data.shape = "list" /\ data.items = <<>>

ListCommitsBody(a, t) ==
    IF MakeRequest(t).kind = "raise" THEN MakeRequest(t)
    ELSE IF RaisesForStatus(t.status) THEN Raise("HTTPError")
    ELSE IF t.data.shape = "notjson" THEN Raise("JSONDecodeError")
    ELSE IF Falsy(t.data) THEN Ret([msg |-> "no_commits"])
    ELSE IF t.data.shape # "list" THEN Raise("TypeError")
    ELSE IF \E i \in 1..Len(t.data.items) : ~t.data.items[i].ok THEN Raise("KeyError")
    ELSE Ret([msg |-> "commits", n |-> Len(t.data.items)])

ListCommits(a, t) == Guarded(ListCommitsBody(a, t), "error_listing_commits")

\* ----------------------------------------------------------- create_branch
CreateBranchRequest(a) ==
    [method |-> "POST", url |-> <<"repos", a.owner, a.repo, "git", "refs">>,
     json |-> [ref |-> <<"refs/heads/", a.branch>>, sha |-> a.sha]]

CreateBranchBody(a, t) ==
    IF MakeRequest(t).kind = "raise" THEN MakeRequest(t)
    ELSE IF RaisesForStatus(t.status) THEN Raise("HTTPError")
    ELSE IF t.data.shape = "notjson" THEN Raise("JSONDecodeError")
    ELSE IF t.data.shape # "dict" THEN Raise("TypeError")
    ELSE IF ~HasKey(t.data.d, "ref") THEN Raise("KeyError")
    ELSE Ret([msg |-> "created_branch", branch |-> a.branch, ref |-> t.data.d.ref])

CreateBranch(a, t) == Guarded(CreateBranchBody(a, t), "error_creating_branch")

\* ----------------------------------------------------- create_pull_request
CreatePullRequestRequest(a) ==
    [method |-> "POST", url |-> <<"repos", a.owner, a.repo, "pulls">>,
     json |-> [title |-> a.title, head |-> a.head, base |-> a.base, draft |-> a.draft]
                @@ (IF a.body # "" THEN [body |-> a.body] ELSE EmptyDict)]

CreatePullRequestBody(a, t) ==
    IF MakeRequest(t).kind = "raise" THEN MakeRequest(t)
    ELSE IF RaisesForStatus(t.status) THEN Raise("HTTPError")
    ELSE IF t.data.shape = "notjson" THEN Raise("JSONDecodeError")
    ELSE IF t.data.shape # "dict" THEN Raise("TypeError")
    ELSE IF ~HasKey(t.data.d, "number") \/ ~HasKey(t.data.d, "html_url") THEN Raise("KeyError")
    ELSE Ret([msg |-> IF a.draft THEN "created_draft_pr" ELSE "created_pr",
              number |-> t.data.d.number, title |-> a.title])

CreatePullRequest(a, t) == Guarded(CreatePullRequestBody(a, t), "error_creating_pr")

\* --------------------------------------------------- create_or_update_file
\* base64.b64encode(content.encode('utf-8')).decode('utf-8'), and the remote's
\* decoding of it.
Base64Encode(c) == [b64 |-> c]

Base64Decode(e) == e.b64

\* The hash the remote gives a file of content c.
BlobSha(c) == <<c>>

UpsertPrecheckRequest(a) ==
    [method |-> "GET", url |-> <<"repos", a.owner, a.repo, "contents", a.path>>]

\* The pre-check: an exception, or the value of the local `sha`.
UpsertPrecheck(t) ==
    IF MakeRequest(t).kind = "raise" THEN MakeRequest(t)
    ELSE IF t.status = 200 THEN
        IF t.data.shape = "notjson" THEN Raise("JSONDecodeError")
        ELSE IF t.data.shape # "dict" THEN Raise("AttributeError")
        ELSE [kind |-> "sha", sha |-> IF HasKey(t.data.d, "sha") THEN t.data.d.sha ELSE None]
    ELSE [kind |-> "sha", sha |-> None]

UpsertPutRequest(a, s) ==
    [method |-> "PUT", url |-> <<"repos", a.owner, a.repo, "contents", a.path>>,
     json |-> [message |-> a.message, content |-> Base64Encode(a.content), branch |-> a.branch]
                @@ (IF Truthy(s) THEN [sha |-> s] ELSE EmptyDict)]

\* A label that does not look at `sha`.
ActionLabelAlwaysUpdated(s) == "Updated"

\* "Updated" if sha else "Created"
ActionLabel(s) == IF Truthy(s) THEN "Updated" ELSE "Created"

UpsertPutBody(a, s, t) ==
    IF MakeRequest(t).kind = "raise" THEN MakeRequest(t)
    ELSE IF RaisesForStatus(t.status) THEN Raise("HTTPError")
    ELSE IF t.data.shape = "notjson" THEN Raise("JSONDecodeError")
    ELSE IF t.data.shape # "dict" THEN Raise("TypeError")
    ELSE IF ~HasKey(t.data.d, "commit") THEN Raise("KeyError")
    ELSE Ret([msg |-> "upsert_ok", action |-> ActionLabel(s), path |-> a.path])

UpsertError(out) == Guarded(out, "error_creating_updating_file")

\* --------------------------------------------------------------- the remote
\* The contents API for the one file FilePath: rem[b] is the content of the
\* file on branch b, NoFile when the branch has no such file.

\* GET contents without `ref`: the default branch.
RemoteGet(rem) ==
    IF rem[DefaultBranch] = NoFile THEN Resp(404, FALSE, ErrBody)
    ELSE Resp(200, FALSE, Dict([type |-> "file", content |-> "text",
                                sha |-> BlobSha(rem[DefaultBranch])]))

\* PUT contents: a new file takes no sha, an existing one takes its current sha.
RemoteAccepts(rem, body) ==
    IF rem[body.branch] = NoFile THEN ~HasKey(body, "sha")
    ELSE HasKey(body, "sha") /\ body.sha = BlobSha(rem[body.branch])

RemotePutResponse(rem, body) ==
    IF RemoteAccepts(rem, body)
    THEN Resp(IF rem[body.branch] = NoFile THEN 201 ELSE 200, FALSE, Dict([commit |-> "c"]))
    ELSE Resp(IF HasKey(body, "sha") THEN 409 ELSE 422, FALSE, ErrBody)

RemoteAfterPut(rem, body) == [rem EXCEPT ![body.branch] = Base64Decode(body.content)]

\* What can come back for the pre-check GET.
PrecheckFaults ==
    GenericFaults \cup {Resp(200, FALSE, NotJson), Resp(200, FALSE, List(<<>>)),
                        Resp(200, FALSE, Dict([type |-> "file"]))}

\* What can come back for the PUT, and whether the remote applied the write:
\* its own answer; a fault before the write; a lost or unexpected answer after it.
PutOutcomes(rem, body) ==
    {[t |-> RemotePutResponse(rem, body), applied |-> RemoteAccepts(rem, body)]}
    \cup {[t |-> f, applied |-> FALSE] : f \in GenericFaults}
    \cup (IF RemoteAccepts(rem, body)
          THEN {[t |-> NetErr, applied |-> TRUE], [t |-> Resp(200, FALSE, ErrBody), applied |-> TRUE]}
          ELSE {})

\* ------------------------------------------------------------------- state
\* remote    the remote's file FilePath, per branch
\* pc        per invocation: "idle", "await" (a request is out), "done"
\* tool      the tool invoked; args, its arguments
\* sha       create_or_update_file's local `sha`
\* reqs      the requests the invocation has issued, in order
\* resps     what came back for them, in order
\* result    what the handler handed to the dispatch boundary
\* putlog    for a PUT that was answered: the target branch's file just before
\*           it, and whether the remote applied the write
VARIABLES remote, pc, tool, args, sha, reqs, resps, result, putlog

vars == <<remote, pc, tool, args, sha, reqs, resps, result, putlog>>

Procs == 1..NumProcs

Main == 1

NoPut == [sent |-> FALSE]

Init ==
    /\ remote \in [Branches -> {NoFile} \cup Contents]
    /\ pc = [p \in Procs |-> "idle"]
    /\ tool = [p \in Procs |-> "none"]
    /\ args = [p \in Procs |-> EmptyDict]
    /\ sha = [p \in Procs |-> None]
    /\ reqs = [p \in Procs |-> <<>>]
    /\ resps = [p \in Procs |-> <<>>]
    /\ result = [p \in Procs |-> NoResult]
    /\ putlog = [p \in Procs |-> NoPut]

\* The dispatch boundary calls handler tl with arguments a; the handler runs
\* up to its first request.
Invoke(p, tl, a, req) ==
    /\ pc[p] = "idle"
    /\ pc' = [pc EXCEPT ![p] = "await"]
    /\ tool' = [tool EXCEPT ![p] = tl]
    /\ args' = [args EXCEPT ![p] = a]
    /\ reqs' = [reqs EXCEPT ![p] = <<req>>]
    /\ UNCHANGED <<remote, sha, resps, result, putlog>>

Awaiting(p, tl, method) ==
    /\ pc[p] = "await"
    /\ tool[p] = tl
    /\ reqs[p][Len(reqs[p])].method = method

\* A formatted error: the text an `except Exception` clause returns.
IsErrorText(out) == out.kind = "return" /\ HasKey(out.text, "cause")

\* A handler that sends its request again when the call failed.
CompleteWithRetry(p, t, out) ==
    IF IsErrorText(out)
    THEN /\ reqs' = [reqs EXCEPT ![p] = Append(@, reqs[p][Len(reqs[p])])]
         /\ resps' = [resps EXCEPT ![p] = Append(@, t)]
         /\ UNCHANGED <<pc, tool, args, result>>
    ELSE /\ pc' = [pc EXCEPT ![p] = "done"]
         /\ resps' = [resps EXCEPT ![p] = Append(@, t)]
         /\ result' = [result EXCEPT ![p] = out]
         /\ UNCHANGED <<tool, args, reqs>>

\* The handler returns (or raises) `out` on the answer t to its request.
Complete(p, t, out) ==
    /\ pc' = [pc EXCEPT ![p] = "done"]
    /\ resps' = [resps EXCEPT ![p] = Append(@, t)]
    /\ result' = [result EXCEPT ![p] = out]
    /\ UNCHANGED <<tool, args, reqs>>

\* The dispatch boundary passes the result on; the call's frame is gone.
Return(p) ==
    /\ pc[p] = "done"
    /\ pc' = [pc EXCEPT ![p] = "idle"]
    /\ tool' = [tool EXCEPT ![p] = "none"]
    /\ args' = [args EXCEPT ![p] = EmptyDict]
    /\ sha' = [sha EXCEPT ![p] = None]
    /\ reqs' = [reqs EXCEPT ![p] = <<>>]
    /\ resps' = [resps EXCEPT ![p] = <<>>]
    /\ result' = [result EXCEPT ![p] = NoResult]
    /\ putlog' = [putlog EXCEPT ![p] = NoPut]
    /\ UNCHANGED remote

\* ------------------------------------------------- what the remote may send
FileDicts ==
    {[type |-> "file", content |-> "text", sha |-> BlobSha(1)],
     [type |-> "file", content |-> "undecodable", sha |-> BlobSha(1)],
     [type |-> "file"], [type |-> "symlink"], [message |-> "x"]}

ContentsPayloads ==
    {NotJson, Scalar(TRUE), Scalar(FALSE)}
    \cup {List(s) : s \in SeqsUpTo(DirItems, MaxEntries)}
    \cup {Dict(d) : d \in FileDicts}

ContentsResponses ==
    GenericFaults \cup {Resp(404, FALSE, ErrBody)}
    \cup {Resp(200, FALSE, d) : d \in ContentsPayloads}

\* Search items: n items, item i with path i; item j has 'text_matches' of kind
\* k, the others of kind b.
SearchItems(n, j, k, b) ==
    [i \in 1..n |-> [path |-> i, tm |-> IF i = j THEN k ELSE b]]

SearchPayloads ==
    {NotJson, Scalar(FALSE), List(<<>>), ErrBody, Dict([total_count |-> 0]),
     Dict([total_count |-> 1])}
    \cup {Dict([total_count |-> tc, items |-> SearchItems(n, j, k, b)]) :
            tc \in {0, MaxItems}, n \in 0..MaxItems, j \in 1..MaxItems,
            k \in MatchKinds, b \in {"absent", "frag"}}

SearchResponses ==
    GenericFaults \cup {Resp(422, FALSE, ErrBody)}
    \cup {Resp(200, FALSE, d) : d \in SearchPayloads}

CommitsPayloads ==
    {NotJson, Scalar(TRUE), Scalar(FALSE), ErrBody}
    \cup {List(s) : s \in SeqsUpTo({[ok |-> TRUE], [ok |-> FALSE]}, 2)}

CommitsResponses ==
    GenericFaults \cup {Resp(404, FALSE, ErrBody), Resp(409, FALSE, ErrBody)}
    \cup {Resp(200, FALSE, d) : d \in CommitsPayloads}

BranchResponses ==
    GenericFaults \cup {Resp(422, FALSE, ErrBody), Resp(404, FALSE, ErrBody)}
    \cup {Resp(201, FALSE, d) :
            d \in {Dict([ref |-> "refs/heads/dev"]), ErrBody, NotJson, List(<<>>), Scalar(FALSE)}}

PullResponses ==
    GenericFaults \cup {Resp(422, FALSE, ErrBody), Resp(404, FALSE, ErrBody)}
    \cup {Resp(201, FALSE, d) :
            d \in {Dict([number |-> 1, html_url |-> "u"]), Dict([number |-> 1]), ErrBody,
                   NotJson, List(<<>>), Scalar(TRUE)}}

\* ----------------------------------------------------------------- actions
ContentsArgs(path, ref) == [owner |-> Owner, repo |-> Repo, path |-> path, ref |-> ref]

InvokeGetFileContents(p) ==
    \E path \in Paths, ref \in Refs :
        /\ pc[p] = "idle"
        /\ Invoke(p, "get_file_contents", ContentsArgs(path, ref),
                  GetFileContentsRequest(ContentsArgs(path, ref)))

GetFileContentsRespond(p) ==
    /\ Awaiting(p, "get_file_contents", "GET")
    /\ \E t \in ContentsResponses : Complete(p, t, GetFileContents(args[p], t))
    /\ UNCHANGED <<remote, sha, putlog>>

InvokeListDirectory(p) ==
    \E path \in Paths, ref \in Refs :
        /\ pc[p] = "idle"
        /\ Invoke(p, "list_directory", ContentsArgs(path, ref),
                  ListDirectoryRequest(ContentsArgs(path, ref)))

ListDirectoryRespond(p) ==
    /\ Awaiting(p, "list_directory", "GET")
    /\ \E t \in ContentsResponses : Complete(p, t, ListDirectory(args[p], t))
    /\ UNCHANGED <<remote, sha, putlog>>

SearchArgs(query) == [owner |-> Owner, repo |-> Repo, query |-> query]

InvokeSearchCode(p) ==
    \E query \in {"todo"} :
        /\ pc[p] = "idle"
        /\ Invoke(p, "search_code", SearchArgs(query), SearchCodeRequest(SearchArgs(query)))

SearchCodeRespond(p) ==
    /\ Awaiting(p, "search_code", "GET")
    /\ \E t \in SearchResponses : Complete(p, t, SearchCode(args[p], t))
    /\ UNCHANGED <<remote, sha, putlog>>

PerPageInputs == {-1, 0, 10, MaxPerPage - 1, MaxPerPage, MaxPerPage + 1, 500}

CommitsArgs(s, path, page, pp) ==
    [owner |-> Owner, repo |-> Repo, sha |-> s, path |-> path, page |-> page, per_page |-> pp]

InvokeListCommits(p) ==
    \E s \in {"", "dev"}, path \in {"", FilePath}, page \in {1, 2}, pp \in PerPageInputs :
        /\ pc[p] = "idle"
        /\ Invoke(p, "list_commits", CommitsArgs(s, path, page, pp),
                  ListCommitsRequest(CommitsArgs(s, path, page, pp)))

ListCommitsRespond(p) ==
    /\ Awaiting(p, "list_commits", "GET")
    /\ \E t \in CommitsResponses : Complete(p, t, ListCommits(args[p], t))
    /\ UNCHANGED <<remote, sha, putlog>>

BranchArgs(b, s) == [owner |-> Owner, repo |-> Repo, branch |-> b, sha |-> s]

InvokeCreateBranch(p) ==
    \E b \in {"dev"}, s \in {"abc1234"} :
        /\ pc[p] = "idle"
        /\ Invoke(p, "create_branch", BranchArgs(b, s), CreateBranchRequest(BranchArgs(b, s)))

CreateBranchRespond(p) ==
    /\ Awaiting(p, "create_branch", "POST")
    /\ \E t \in BranchResponses : Complete(p, t, CreateBranch(args[p], t))
    /\ UNCHANGED <<remote, sha, putlog>>

PullArgs(body, draft) ==
    [owner |-> Owner, repo |-> Repo, title |-> "t", head |-> "dev", base |-> "main",
     body |-> body, draft |-> draft]

InvokeCreatePullRequest(p) ==
    \E body \in {"", "text"}, draft \in BOOLEAN :
        /\ pc[p] = "idle"
        /\ Invoke(p, "create_pull_request", PullArgs(body, draft),
                  CreatePullRequestRequest(PullArgs(body, draft)))

CreatePullRequestRespond(p) ==
    /\ Awaiting(p, "create_pull_request", "POST")
    /\ \E t \in PullResponses : Complete(p, t, CreatePullRequest(args[p], t))
    /\ UNCHANGED <<remote, sha, putlog>>

UpsertArgs(c, b) ==
    [owner |-> Owner, repo |-> Repo, path |-> FilePath, content |-> c, message |-> "m",
     branch |-> b]

InvokeUpsert(p) ==
    \E c \in Contents, b \in Branches :
        /\ pc[p] = "idle"
        /\ Invoke(p, "create_or_update_file", UpsertArgs(c, b), UpsertPrecheckRequest(UpsertArgs(c, b)))

\* The answer t to the pre-check GET: the handler fails, or sets `sha` and
\* issues the PUT.
UpsertPrecheckStep(p, t) ==
    /\ Awaiting(p, "create_or_update_file", "GET")
    /\ IF UpsertPrecheck(t).kind = "raise"
       THEN /\ Complete(p, t, UpsertError(UpsertPrecheck(t)))
            /\ UNCHANGED sha
       ELSE /\ sha' = [sha EXCEPT ![p] = UpsertPrecheck(t).sha]
            /\ reqs' = [reqs EXCEPT ![p] = Append(@, UpsertPutRequest(args[p], UpsertPrecheck(t).sha))]
            /\ resps' = [resps EXCEPT ![p] = Append(@, t)]
            /\ UNCHANGED <<pc, tool, args, result>>
    /\ UNCHANGED <<remote, putlog>>

\* A handler that fetches the hash again and writes again when the PUT failed.
UpsertAfterPutRefetch(p, t, out) ==
    IF IsErrorText(out)
    THEN /\ reqs' = [reqs EXCEPT ![p] = Append(@, UpsertPrecheckRequest(args[p]))]
         /\ resps' = [resps EXCEPT ![p] = Append(@, t)]
         /\ UNCHANGED <<pc, tool, args, result, sha>>
    ELSE Complete(p, t, out) /\ UNCHANGED sha

\* After the PUT's answer the handler returns, whatever the answer was.
UpsertAfterPut(p, t, out) == Complete(p, t, out) /\ UNCHANGED sha

\* The outcome o of the PUT: the remote applies the write or not, and the
\* handler returns on the answer.
UpsertPutStep(p, o) ==
    /\ Awaiting(p, "create_or_update_file", "PUT")
    /\ remote' = IF o.applied THEN RemoteAfterPut(remote, reqs[p][Len(reqs[p])].json) ELSE remote
    /\ putlog' = [putlog EXCEPT ![p] =
                    [sent |-> TRUE, before |-> remote[args[p].branch], applied |-> o.applied,
                     rejected |-> ~RemoteAccepts(remote, reqs[p][Len(reqs[p])].json)]]
    /\ UpsertAfterPut(p, o.t, UpsertError(UpsertPutBody(args[p], sha[p], o.t)))

UpsertPrecheckRespond(p) ==
    /\ Awaiting(p, "create_or_update_file", "GET")
    /\ \E t \in {RemoteGet(remote)} \cup PrecheckFaults : UpsertPrecheckStep(p, t)

UpsertPutRespond(p) ==
    /\ Awaiting(p, "create_or_update_file", "PUT")
    /\ \E o \in PutOutcomes(remote, reqs[p][Len(reqs[p])].json) : UpsertPutStep(p, o)

\* ---------------------------------------------------------- specifications
\* One dispatcher serving invocations of the seven tools one after the other.
Next ==
    \/ InvokeGetFileContents(Main)
    \/ GetFileContentsRespond(Main)
    \/ InvokeListDirectory(Main)
    \/ ListDirectoryRespond(Main)
    \/ InvokeSearchCode(Main)
    \/ SearchCodeRespond(Main)
    \/ InvokeListCommits(Main)
    \/ ListCommitsRespond(Main)
    \/ InvokeCreateBranch(Main)
    \/ CreateBranchRespond(Main)
    \/ InvokeCreatePullRequest(Main)
    \/ CreatePullRequestRespond(Main)
    \/ InvokeUpsert(Main)
    \/ UpsertPrecheckRespond(Main)
    \/ UpsertPutRespond(Main)
    \/ Return(Main)

Spec == Init /\ [][Next]_vars

\* Concurrent create_or_update_file invocations on the same path, interleaved
\* at their requests.  The remote answers every PUT itself; a pre-check GET is
\* answered by the remote or fails with a server error.
ConcPrecheck(p) ==
    /\ Awaiting(p, "create_or_update_file", "GET")
    /\ \E t \in {RemoteGet(remote), Resp(500, FALSE, NotJson)} : UpsertPrecheckStep(p, t)

ConcPut(p) ==
    /\ Awaiting(p, "create_or_update_file", "PUT")
    /\ UpsertPutStep(p, [t |-> RemotePutResponse(remote, reqs[p][Len(reqs[p])].json),
                         applied |-> RemoteAccepts(remote, reqs[p][Len(reqs[p])].json)])

NextUpsert ==
    \E p \in Procs :
        \/ InvokeUpsert(p)
        \/ ConcPrecheck(p)
        \/ ConcPut(p)

SpecUpsert == Init /\ [][NextUpsert]_vars

\* create_or_update_file invocations one after the other (invocation p + 1
\* starts when invocation p has returned), the remote answering every request
\* itself: no fault, no other writer.
SeqInvoke(p) ==
    /\ \A q \in Procs : q < p => pc[q] = "done"
    /\ InvokeUpsert(p)

SeqPrecheck(p) ==
    /\ Awaiting(p, "create_or_update_file", "GET")
    /\ UpsertPrecheckStep(p, RemoteGet(remote))

SeqPut(p) ==
    /\ Awaiting(p, "create_or_update_file", "PUT")
    /\ UpsertPutStep(p, [t |-> RemotePutResponse(remote, reqs[p][Len(reqs[p])].json),
                         applied |-> RemoteAccepts(remote, reqs[p][Len(reqs[p])].json)])

NextSeq ==
    \E p \in Procs :
        \/ SeqInvoke(p)
        \/ SeqPrecheck(p)
        \/ SeqPut(p)

SpecSeq == Init /\ [][NextSeq]_vars

\* ------------------------------------------------------------------ claims
Done(p, tl) == pc[p] = "done" /\ tool[p] = tl

IsText(out) == out.kind = "return"

UpsertSucceeded(p, label) ==
    /\ Done(p, "create_or_update_file")
    /\ IsText(result[p])
    /\ result[p].text.msg = "upsert_ok"
    /\ result[p].text.action = label

\* The pre-check GET failed: no answer, or a status that says neither "here it
\* is" nor "no such file".
PrecheckFailed(p) ==
    /\ Len(resps[p]) >= 1
    /\ resps[p][1].neterr \/ resps[p][1].status \notin {200, 404}

\* C1: two create_or_update_file calls in sequence on the same path and branch,
\* starting without the file and with no other writer: the first returns
\* "Created", the second "Updated", and the second PUT carries the hash its own
\* pre-check read, which is the file's hash at the time of that PUT.
C1_CreatedThenUpdated ==
    (/\ Done(1, "create_or_update_file")
     /\ Done(2, "create_or_update_file")
     /\ args[1].branch = args[2].branch
     /\ resps[1][1].status = 404
     /\ putlog[1].sent
     /\ putlog[1].before = NoFile)
    => /\ UpsertSucceeded(1, "Created")
       /\ UpsertSucceeded(2, "Updated")
       /\ HasKey(reqs[2][2].json, "sha")
       /\ reqs[2][2].json.sha = resps[2][1].data.d.sha
       /\ reqs[2][2].json.sha = BlobSha(putlog[2].before)

\* C2: in every interleaving of concurrent create_or_update_file invocations,
\* each invocation sends one GET and at most one PUT; a PUT the remote applied
\* to an existing file carried the hash the file had at that moment; a PUT whose
\* hash was missing or stale at that moment was not applied, and its invocation
\* returns an error text without fetching or writing again.
C2_StaleWriteRejected ==
    \A p \in Procs :
        /\ Len(reqs[p]) <= 2
        /\ putlog[p].sent =>
            /\ Len(reqs[p]) = 2
            /\ reqs[p][1].method = "GET"
            /\ reqs[p][2].method = "PUT"
            /\ (putlog[p].applied /\ putlog[p].before # NoFile) =>
                  /\ HasKey(reqs[p][2].json, "sha")
                  /\ reqs[p][2].json.sha = BlobSha(putlog[p].before)
            /\ (/\ putlog[p].before # NoFile
                /\ \/ ~HasKey(reqs[p][2].json, "sha")
                   \/ reqs[p][2].json.sha # BlobSha(putlog[p].before)) =>
                  /\ ~putlog[p].applied
                  /\ pc[p] = "done"
                  /\ IsErrorText(result[p])

\* Two invocations read the same hash; one overwrote the file, the other's PUT
\* then carried a stale hash and was rejected.
C2_Witness ==
    \E p, q \in Procs :
        /\ p # q
        /\ putlog[p].sent /\ putlog[q].sent
        /\ putlog[p].applied /\ putlog[p].before # NoFile
        /\ Truthy(sha[q]) /\ sha[q] = sha[p]
        /\ args[p].branch = args[q].branch
        /\ putlog[q].rejected /\ putlog[q].before # NoFile
        /\ IsErrorText(result[q])

\* C3: whatever the remote call's outcome, a finished invocation of any tool
\* has handed a text to the dispatch boundary; no exception has left the handler.
C3_AlwaysText ==
    \A p \in Procs : pc[p] = "done" => IsText(result[p])

\* A search answered 200 with a payload of unexpected shape (a list) ended as a
\* formatted error.
C3_Witness ==
    /\ Done(Main, "search_code")
    /\ resps[Main][1].status = 200
    /\ resps[Main][1].data.shape = "list"
    /\ IsErrorText(result[Main])
    /\ result[Main].text.cause = "TypeError"

\* C4: in create_or_update_file a failed pre-check GET or a failed PUT ends in
\* an error text; a failed pre-check is never followed by a reported success.
C4_FailureSurfaces ==
    \A p \in Procs :
        Done(p, "create_or_update_file") =>
            /\ PrecheckFailed(p) => IsErrorText(result[p])
            /\ (/\ Len(resps[p]) = 2
                /\ \/ resps[p][2].neterr
                   \/ RaisesForStatus(resps[p][2].status)) => IsErrorText(result[p])

\* C5: when the content GET is answered 404, get_file_contents and
\* list_directory return their not-found message with the requested path, as a
\* text, after exactly one request.
C5_NotFound ==
    \A p \in Procs :
        (/\ pc[p] = "done"
         /\ tool[p] \in {"get_file_contents", "list_directory"}
         /\ ~resps[p][1].neterr
         /\ resps[p][1].status = 404)
        => /\ IsText(result[p])
           /\ result[p].text.msg =
                (IF tool[p] = "get_file_contents" THEN "file_not_found" ELSE "directory_not_found")
           /\ result[p].text.path = args[p].path
           /\ Len(reqs[p]) = 1
           /\ Len(resps[p]) = 1

C5_Witness ==
    /\ Done(Main, "get_file_contents")
    /\ resps[Main][1].status = 404
    /\ args[Main].path = "notes"
    /\ args[Main].ref = "dev"
    /\ result[Main].text.msg = "file_not_found"

\* C6: an invocation issues at most two requests, one after the other; only
\* create_or_update_file issues two, a GET then at most one PUT; every other
\* tool issues exactly one; no request is issued again.
C6_AtMostTwoRequests ==
    \A p \in Procs :
        /\ Len(reqs[p]) <= 2
        /\ Len(resps[p]) = (IF pc[p] = "await" THEN Len(reqs[p]) - 1 ELSE Len(reqs[p]))
        /\ pc[p] # "idle" => Len(reqs[p]) >= 1
        /\ (pc[p] # "idle" /\ tool[p] # "create_or_update_file") => Len(reqs[p]) = 1
        /\ (pc[p] # "idle" /\ tool[p] = "create_or_update_file") =>
              /\ reqs[p][1].method = "GET"
              /\ Len(reqs[p]) = 2 => reqs[p][2].method = "PUT"

\* A rejected PUT ended the invocation: two requests, no third.
C6_Witness ==
    /\ Done(Main, "create_or_update_file")
    /\ Len(reqs[Main]) = 2
    /\ resps[Main][2].status = 409
    /\ IsErrorText(result[Main])

\* The name a rendered line shows: the line without its two-character prefix
\* and, for a directory, without its trailing slash.
EntryName(line, isDir) == SubSeq(line, 3, Len(line) - (IF isDir THEN 1 ELSE 0))

AlphabeticalByName(lines, isDir) ==
    \A i, j \in 1..Len(lines) :
        i < j => ~StrLess(EntryName(lines[j], isDir), EntryName(lines[i], isDir))

\* C7: list_directory renders the directories, each with a trailing slash,
\* then the files, and each section is in alphabetical order of the entries'
\* names, whichever files are .md files.
C7_SectionsAlphabetical ==
    \A p \in Procs :
        (Done(p, "list_directory") /\ IsText(result[p]) /\ result[p].text.msg = "listing") =>
            /\ \A i \in 1..Len(result[p].text.dirs) :
                  result[p].text.dirs[i][Len(result[p].text.dirs[i])] = SlashChar
            /\ AlphabeticalByName(result[p].text.dirs, TRUE)
            /\ AlphabeticalByName(result[p].text.files, FALSE)

\* The paths the rendered result shows.
ShownPaths(lines) == {lines[i].path : i \in {k \in 1..Len(lines) : lines[k].kind = "path"}}

\* C8: for a search response with total_count > 0, each of the first 10 items,
\* and no later item, contributes its file path to the result; with
\* total_count = 0 the result is the "No results" message with the query.
C8_FirstTenRendered ==
    \A p \in Procs :
        (/\ Done(p, "search_code")
         /\ ~resps[p][1].neterr
         /\ resps[p][1].status = 200
         /\ resps[p][1].data.shape = "dict"
         /\ HasKey(resps[p][1].data.d, "total_count")
         /\ HasKey(resps[p][1].data.d, "items"))
        => /\ IsText(result[p])
           /\ IF resps[p][1].data.d.total_count = 0
              THEN /\ result[p].text.msg = "no_results"
                   /\ result[p].text.query = args[p].query
              ELSE /\ result[p].text.msg = "found"
                   /\ ShownPaths(result[p].text.lines) =
                        {resps[p][1].data.d.items[i].path :
                            i \in 1..Min(10, Len(resps[p][1].data.d.items))}

\* C9: list_commits sends per_page as given when it is at most 100 and as 100
\* otherwise, page unchanged, and sha and path only when they are not empty.
C9_PerPageClamped ==
    \A p \in Procs :
        (pc[p] # "idle" /\ tool[p] = "list_commits") =>
            /\ reqs[p][1].params.per_page <= 100
            /\ reqs[p][1].params.per_page =
                  (IF args[p].per_page <= 100 THEN args[p].per_page ELSE 100)
            /\ reqs[p][1].params.page = args[p].page
            /\ HasKey(reqs[p][1].params, "sha") <=> args[p].sha # ""
            /\ HasKey(reqs[p][1].params, "sha") => reqs[p][1].params.sha = args[p].sha
            /\ HasKey(reqs[p][1].params, "path") <=> args[p].path # ""
            /\ HasKey(reqs[p][1].params, "path") => reqs[p][1].params.path = args[p].path
            /\ DOMAIN reqs[p][1].params \subseteq {"page", "per_page", "sha", "path"}

\* per_page = 500 went out as 100, without sha and with path.
C9_Witness ==
    /\ pc[Main] = "await"
    /\ tool[Main] = "list_commits"
    /\ args[Main].per_page = 500
    /\ reqs[Main][1].params.per_page = 100
    /\ args[Main].sha = ""
    /\ ~HasKey(reqs[Main][1].params, "sha")
    /\ HasKey(reqs[Main][1].params, "path")

\* C10: for every target branch, a success text's label agrees with the target
\* branch just before the write: "Updated" only if the file was there, "Created"
\* only if it was not.
C10_LabelMatchesTarget ==
    \A p \in Procs :
        /\ UpsertSucceeded(p, "Updated") => putlog[p].sent /\ putlog[p].before # NoFile
        /\ UpsertSucceeded(p, "Created") => putlog[p].sent /\ putlog[p].before = NoFile

\* A success on a branch other than the default one, whose file the pre-check
\* did not read: an update, and a creation while the default branch has the file
\* no more or not yet.
C10_Witness ==
    \E p, q \in Procs :
        /\ UpsertSucceeded(p, "Updated")
        /\ args[p].branch # DefaultBranch
        /\ UpsertSucceeded(q, "Created")
        /\ args[q].branch # DefaultBranch

====
